---- MODULE Spec2Model ----
(***************************************************************************)
(* Model of Mex::Utils (lib/util/Mex/Utils.h): the static helpers that     *)
(* read MATLAB array metadata into Eigen integer vectors, merge slice      *)
(* shapes, validate slice indices and check array types and row/column     *)
(* counts.  Every helper is a pure function of its arguments; the state    *)
(* of the model is the last call made, its arguments and how it ended.     *)
(***************************************************************************)
EXTENDS Integers, Sequences, FiniteSets, TLC

VARIABLES
    ndebug,      \* TRUE: assertions compiled out (NDEBUG), FALSE: assertions active
    op,          \* the helper called last
    args,        \* its arguments
    outcome,     \* "returned", "invalid_argument", "fatal" (assertion), "crash"
    result,      \* the value returned, when outcome = "returned"
    message,     \* the what() of the exception thrown, as a token sequence
    outOfRange   \* the call asked Eigen for a sub-range outside its vector

vars == <<ndebug, op, args, outcome, result, message, outOfRange>>

(***************************************************************************)
(* Bounds of the model.                                                    *)
(***************************************************************************)
MaxLen == 2        \* longest slice-shape vector given to expandSliceDims
MaxVal == 1        \* vector coefficients range over -1..MaxVal
MaxD == 2          \* longest bound vector given to isValidSlice; candidates are up to one longer
MaxFull == 3       \* longest full shape vector given to expandSlices
MaxHi == 1         \* host extents range up to (MaxHi + 1) * 2^31 - 1
MaxDims == 3       \* most axes of a host array
MaxExpected == 2   \* largest concrete template row/column count
MaxAddr == 1       \* non-null data addresses are 1..MaxAddr

None == "none"

Vals == (0 - 1)..MaxVal

VectorsOfLen(n) == [1..n -> Vals]

Vectors(lo, hi) == UNION {VectorsOfLen(n) : n \in lo..hi}

Max(a, b) == IF a >= b THEN a ELSE b

Min(a, b) == IF a <= b THEN a ELSE b

(***************************************************************************)
(* Eigen::VectorXi operations used by the helpers.                         *)
(***************************************************************************)
\* v.head(n): the first n coefficients.
head(v, n) == SubSeq(v, 1, n)

\* v.tail(n): the last n coefficients.
tail(v, n) == SubSeq(v, Len(v) - n + 1, Len(v))

\* The range condition of a head/tail block of n coefficients of v.
blockInRange(v, n) == n >= 0 /\ n <= Len(v)

cwiseMin(a, b) == [i \in 1..Len(a) |-> Min(a[i], b[i])]

cwiseMax(a, b) == [i \in 1..Len(a) |-> Max(a[i], b[i])]

isZero(v) == \A i \in 1..Len(v) : v[i] = 0

(***************************************************************************)
(* expandSliceDims, expandSlices                                           *)
(***************************************************************************)
\* A faulty variant: the second operand's missing axes count as 0 instead of 1.
expandSliceDims_padB0(sliceDimsA, sliceDimsB) ==
    [i \in 1..Max(Len(sliceDimsA), Len(sliceDimsB)) |->
        Max(IF i <= Len(sliceDimsA) THEN sliceDimsA[i] ELSE 1,
            IF i <= Len(sliceDimsB) THEN sliceDimsB[i] ELSE 0)]

expandSliceDims(sliceDimsA, sliceDimsB) ==
    [i \in 1..Max(Len(sliceDimsA), Len(sliceDimsB)) |->
        Max(IF i <= Len(sliceDimsA) THEN sliceDimsA[i] ELSE 1,
            IF i <= Len(sliceDimsB) THEN sliceDimsB[i] ELSE 1)]

\* A faulty variant: only one leading axis is stripped.
expandSlices_strip1(dimsA, dimsB) ==
    expandSliceDims(tail(dimsA, Len(dimsA) - 1), tail(dimsB, Len(dimsB) - 1))

\* The overload on full shape vectors.
expandSlices(dimsA, dimsB) ==
    expandSliceDims(tail(dimsA, Len(dimsA) - 2), tail(dimsB, Len(dimsB) - 2))

\* The generic overload, on objects with a slices() accessor.
expandSlicesMat(matA, matB) == expandSliceDims(matA.slices, matB.slices)

(***************************************************************************)
(* isValidSlice                                                            *)
(***************************************************************************)
\* A faulty variant: the tail of an oversized slice is not looked at.
isValidSlice_noTail(slice, sliceMins, sliceMaxs) ==
    LET sliceDims == Len(sliceMins)
        sHead == head(slice, sliceDims)
    IN  IF Len(slice) < sliceDims THEN FALSE
        ELSE IF Len(sHead) = 0 THEN TRUE
        ELSE /\ cwiseMin(sliceMins, sHead) = sliceMins
             /\ cwiseMax(sliceMaxs, sHead) = sliceMaxs

\* The value the branches of isValidSlice compute from sHead and sTail.
isValidSlice(slice, sliceMins, sliceMaxs) ==
    LET sliceDims == Len(sliceMins)
        sHead == head(slice, sliceDims)
        sTail == tail(slice, Len(slice) - sliceDims)
    IN  IF Len(slice) < sliceDims THEN FALSE
        ELSE IF Len(sHead) = 0 THEN isZero(sTail)
        ELSE /\ cwiseMin(sliceMins, sHead) = sliceMins
             /\ cwiseMax(sliceMaxs, sHead) = sliceMaxs
             /\ (Len(slice) = sliceDims \/ isZero(sTail))

\* sHead and sTail are built before the length test: whether both blocks
\* lie inside slice.
isValidSliceBlocksInRange(slice, sliceMins) ==
    /\ blockInRange(slice, Len(sliceMins))
    /\ blockInRange(slice, Len(slice) - Len(sliceMins))

(***************************************************************************)
(* Outcomes of a call.                                                     *)
(***************************************************************************)
Returned(v) == [outcome |-> "returned", value |-> v, message |-> <<>>]

\* throw std::invalid_argument(msg)
InvalidArgument(msg) == [outcome |-> "invalid_argument", value |-> None, message |-> msg]

\* A failed assertion ends the MEX function.
Fatal(msg) == [outcome |-> "fatal", value |-> None, message |-> msg]

\* One of the ways undefined behaviour can end.
Crash == [outcome |-> "crash", value |-> None, message |-> <<>>]

\* isValidSlice as a call: with assertions active an out-of-range block stops
\* the program in Eigen's assertion; with assertions compiled out the block is
\* read outside the vector (undefined) and the length test then decides.
isValidSliceCall(slice, sliceMins, sliceMaxs, nd) ==
    IF isValidSliceBlocksInRange(slice, sliceMins)
    THEN {Returned(isValidSlice(slice, sliceMins, sliceMaxs))}
    ELSE IF nd
         THEN {Returned(isValidSlice(slice, sliceMins, sliceMaxs)), Crash}
         ELSE {Fatal(<<"eigen_assert">>)}

(***************************************************************************)
(* Integer widths.  int is 32 bits wide; a host size (mwSize, size_t) is   *)
(* 64 bits wide and is written [hi, lo] for the value hi * 2^31 + lo with  *)
(* 0 <= lo < 2^31.                                                         *)
(***************************************************************************)
INT_MAX == 2147483647

INT_MIN == (0 - INT_MAX) - 1

Size(h, l) == [hi |-> h, lo |-> l]

\* The conversion of a host size to int: the low 32 bits, two's complement.
SizeToInt(s) == IF s.hi % 2 = 0 THEN s.lo ELSE (s.lo - INT_MAX) - 1

SizeAdd(x, y) ==
    IF x.lo > INT_MAX - y.lo
    THEN Size(x.hi + y.hi + 1, (x.lo - (INT_MAX - y.lo)) - 1)
    ELSE Size(x.hi + y.hi, x.lo + y.lo)

RECURSIVE SizeTimes(_, _)
SizeTimes(k, s) == IF k = 0 THEN Size(0, 0) ELSE SizeAdd(s, SizeTimes(k - 1, s))

\* The product of two host sizes of which one is below 2^31.
SizeMul(x, y) ==
    IF x.hi = 0 /\ (y.hi > 0 \/ x.lo <= y.lo)
    THEN SizeTimes(x.lo, y)
    ELSE SizeTimes(y.lo, x)

RECURSIVE SizeProduct(_)
SizeProduct(ds) ==
    IF Len(ds) = 0 THEN Size(0, 1) ELSE SizeMul(Head(ds), SizeProduct(Tail(ds)))

(***************************************************************************)
(* The host's array handle (mxArray) and its accessors.                    *)
(***************************************************************************)
NULL == 0

ClassIds == {"double", "int32"}

LoSamples == {0, 1, 2, INT_MAX}

\* The extents a host array can declare for its first two axes.
Sizes == {Size(h, l) : h \in 0..MaxHi, l \in LoSamples}

\* The extents of the further axes.
TrailingSizes == {Size(0, 1), Size(0, 2)}

DimVectors ==
    UNION {{<<m, n>> \o t : m \in Sizes, n \in Sizes, t \in [1..k -> TrailingSizes]}
           : k \in 0..(MaxDims - 2)}

Arrays ==
    [sparse : BOOLEAN, classId : ClassIds, data : {NULL} \cup (1..MaxAddr),
     dims : DimVectors]

mxIsSparse(array) == array.sparse

mxGetNumberOfDimensions(array) == Len(array.dims)

mxGetDimensions(array) == array.dims

mxGetData(array) == array.data

\* The number of rows: the first extent.
mxGetM(array) == array.dims[1]

\* The number of columns: the product of the other extents.
mxGetN(array) == SizeProduct(Tail(array.dims))

\* The type-compatibility predicate Traits<Scalar>::isValidArray.
isValidArray(Scalar, array) == array.classId = Scalar

(***************************************************************************)
(* getDimensions                                                           *)
(***************************************************************************)
\* A faulty variant: a sparse array is reported through the exception channel.
getDimensions_throws(array, nd) ==
    IF mxIsSparse(array)
    THEN InvalidArgument(<<"Array must be dense.">>)
    ELSE Returned([i \in 1..mxGetNumberOfDimensions(array) |->
                      SizeToInt(mxGetDimensions(array)[i])])

\* mxAssert is checked only when assertions are compiled in.
getDimensions(array, nd) ==
    IF mxIsSparse(array) /\ ~nd
    THEN Fatal(<<"Array must be dense.">>)
    ELSE Returned([i \in 1..mxGetNumberOfDimensions(array) |->
                      SizeToInt(mxGetDimensions(array)[i])])

(***************************************************************************)
(* checkArrayType                                                          *)
(***************************************************************************)
\* (Scalar*) p, or (const Scalar*) p
Pointer(p, Scalar, isConst) == [addr |-> p, type |-> Scalar, const |-> isConst]

\* A faulty variant: the type check is left out.
checkArrayType_unchecked(Scalar, array, isConst) ==
    Returned(Pointer(mxGetData(array), Scalar, isConst))

\* Both overloads; isConst tells them apart.
checkArrayType(Scalar, array, isConst) ==
    IF ~isValidArray(Scalar, array)
    THEN InvalidArgument(<<"MX array of invalid type.">>)
    ELSE Returned(Pointer(mxGetData(array), Scalar, isConst))

(***************************************************************************)
(* checkRows, checkCols                                                    *)
(***************************************************************************)
Dynamic == -1

DigitChars == <<"0", "1", "2", "3", "4", "5", "6", "7", "8", "9">>

Digit(d) == DigitChars[d + 1]

RECURSIVE natDigits(_)
natDigits(n) ==
    IF n < 10 THEN <<Digit(n)>> ELSE Append(natDigits(n \div 10), Digit(n % 10))

\* The decimal digits of -n, for n < 0, without forming -n.
RECURSIVE negDigits(_)
negDigits(n) ==
    IF n > 0 - 10 THEN <<Digit(0 - n)>>
    ELSE LET r == n % 10
         IN  Append(negDigits((n \div 10) + (IF r = 0 THEN 0 ELSE 1)),
                    Digit((10 - r) % 10))

\* std::to_string(int), one token per character.
to_string(n) == IF n < 0 THEN <<"-">> \o negDigits(n) ELSE natDigits(n)

Mismatch(given, expected, what) ==
    <<"Mismatch between given (">> \o to_string(given)
        \o <<") and expected (">> \o to_string(expected)
        \o <<") number of ", what, ".">>

checkRows(r, rows) ==
    IF r = Dynamic \/ r = rows
    THEN Returned(rows)
    ELSE InvalidArgument(Mismatch(rows, r, "rows"))

checkRowsArray(r, array) == checkRows(r, SizeToInt(mxGetM(array)))

checkCols(c, cols) ==
    IF c = Dynamic \/ c = cols
    THEN Returned(cols)
    ELSE InvalidArgument(Mismatch(cols, c, "columns"))

checkColsArray(c, array) == checkCols(c, SizeToInt(mxGetN(array)))

(***************************************************************************)
(* The state machine: the caller calls one helper, takes what the call     *)
(* gave, and is then free to call again.  The helpers keep no state.       *)
(***************************************************************************)
\* The template arguments the row and column checks are instantiated with.
Expected == {Dynamic} \cup (1..MaxExpected)

\* The runtime counts given to the int overloads.
Counts == ((0 - 1)..(MaxExpected + 1)) \cup {INT_MAX, INT_MIN}

\* Objects with a slices() accessor.
Mats == [slices : Vectors(0, MaxLen)]

Init ==
    /\ ndebug \in BOOLEAN
    /\ op = None
    /\ args = <<>>
    /\ outcome = None
    /\ result = None
    /\ message = <<>>
    /\ outOfRange = FALSE

GetDimensions ==
    /\ op = None
    /\ \E array \in Arrays :
        LET r == getDimensions(array, ndebug)
        IN  /\ op' = "getDimensions"
            /\ args' = <<array>>
            /\ outcome' = r.outcome
            /\ result' = r.value
            /\ message' = r.message
            /\ outOfRange' = FALSE
            /\ UNCHANGED ndebug

ExpandSliceDims ==
    /\ op = None
    /\ \E A \in Vectors(0, MaxLen), B \in Vectors(0, MaxLen) :
        LET r == Returned(expandSliceDims(A, B))
        IN  /\ op' = "expandSliceDims"
            /\ args' = <<A, B>>
            /\ outcome' = r.outcome
            /\ result' = r.value
            /\ message' = r.message
            /\ outOfRange' = FALSE
            /\ UNCHANGED ndebug

ExpandSlices ==
    /\ op = None
    /\ \E dimsA \in Vectors(2, MaxFull), dimsB \in Vectors(2, MaxFull) :
        LET r == Returned(expandSlices(dimsA, dimsB))
        IN  /\ op' = "expandSlices"
            /\ args' = <<dimsA, dimsB>>
            /\ outcome' = r.outcome
            /\ result' = r.value
            /\ message' = r.message
            /\ outOfRange' = FALSE
            /\ UNCHANGED ndebug

ExpandSlicesMat ==
    /\ op = None
    /\ \E matA \in Mats, matB \in Mats :
        LET r == Returned(expandSlicesMat(matA, matB))
        IN  /\ op' = "expandSlicesMat"
            /\ args' = <<matA, matB>>
            /\ outcome' = r.outcome
            /\ result' = r.value
            /\ message' = r.message
            /\ outOfRange' = FALSE
            /\ UNCHANGED ndebug

IsValidSlice ==
    /\ op = None
    /\ \E slice \in Vectors(0, MaxD + 1), D \in 0..MaxD :
        \E sliceMins \in VectorsOfLen(D), sliceMaxs \in VectorsOfLen(D) :
            \E r \in isValidSliceCall(slice, sliceMins, sliceMaxs, ndebug) :
                /\ op' = "isValidSlice"
                /\ args' = <<slice, sliceMins, sliceMaxs>>
                /\ outcome' = r.outcome
                /\ result' = r.value
                /\ message' = r.message
                /\ outOfRange' = ~isValidSliceBlocksInRange(slice, sliceMins)
                /\ UNCHANGED ndebug

CheckArrayType ==
    /\ op = None
    /\ \E Scalar \in ClassIds, array \in Arrays, isConst \in BOOLEAN :
        LET r == checkArrayType(Scalar, array, isConst)
        IN  /\ op' = "checkArrayType"
            /\ args' = <<Scalar, array, isConst>>
            /\ outcome' = r.outcome
            /\ result' = r.value
            /\ message' = r.message
            /\ outOfRange' = FALSE
            /\ UNCHANGED ndebug

CheckRows ==
    /\ op = None
    /\ \E r0 \in Expected, rows \in Counts :
        LET r == checkRows(r0, rows)
        IN  /\ op' = "checkRows"
            /\ args' = <<r0, rows>>
            /\ outcome' = r.outcome
            /\ result' = r.value
            /\ message' = r.message
            /\ outOfRange' = FALSE
            /\ UNCHANGED ndebug

CheckRowsArray ==
    /\ op = None
    /\ \E r0 \in Expected, array \in Arrays :
        LET r == checkRowsArray(r0, array)
        IN  /\ op' = "checkRowsArray"
            /\ args' = <<r0, array>>
            /\ outcome' = r.outcome
            /\ result' = r.value
            /\ message' = r.message
            /\ outOfRange' = FALSE
            /\ UNCHANGED ndebug

CheckCols ==
    /\ op = None
    /\ \E c \in Expected, cols \in Counts :
        LET r == checkCols(c, cols)
        IN  /\ op' = "checkCols"
            /\ args' = <<c, cols>>
            /\ outcome' = r.outcome
            /\ result' = r.value
            /\ message' = r.message
            /\ outOfRange' = FALSE
            /\ UNCHANGED ndebug

CheckColsArray ==
    /\ op = None
    /\ \E c \in Expected, array \in Arrays :
        LET r == checkColsArray(c, array)
        IN  /\ op' = "checkColsArray"
            /\ args' = <<c, array>>
            /\ outcome' = r.outcome
            /\ result' = r.value
            /\ message' = r.message
            /\ outOfRange' = FALSE
            /\ UNCHANGED ndebug

\* The call is over: nothing of it is kept.
Return ==
    /\ op # None
    /\ op' = None
    /\ args' = <<>>
    /\ outcome' = None
    /\ result' = None
    /\ message' = <<>>
    /\ outOfRange' = FALSE
    /\ UNCHANGED ndebug

Next ==
    \/ GetDimensions
    \/ ExpandSliceDims
    \/ ExpandSlices
    \/ ExpandSlicesMat
    \/ IsValidSlice
    \/ CheckArrayType
    \/ CheckRows
    \/ CheckRowsArray
    \/ CheckCols
    \/ CheckColsArray
    \/ Return

Spec == Init /\ [][Next]_vars

(***************************************************************************)
(* Properties.                                                             *)
(***************************************************************************)
\* The coefficient of v on axis i, or 1 where v has no such axis.
AxisOr1(v, i) == IF i <= Len(v) THEN v[i] ELSE 1

\* v without its two leading coefficients.
DropTwo(v) == [i \in 1..(Len(v) - 2) |-> v[i + 2]]

\* C1: expandSliceDims(A, B) returns a vector as long as the longer of A and
\* B whose coefficient on every axis is the larger of A's and B's there, an
\* axis a vector lacks counting as 1.
C1_ExpandSliceDimsIsPaddedMax ==
    op = "expandSliceDims" =>
        /\ outcome = "returned"
        /\ Len(result) = Max(Len(args[1]), Len(args[2]))
        /\ \A i \in 1..Len(result) :
               /\ result[i] >= AxisOr1(args[1], i)
               /\ result[i] >= AxisOr1(args[2], i)
               /\ result[i] \in {AxisOr1(args[1], i), AxisOr1(args[2], i)}

\* A call with vectors of different lengths where the padding 1 wins over a
\* smaller coefficient of the longer vector.
C1_Witness ==
    /\ op = "expandSliceDims"
    /\ Len(args[1]) > Len(args[2])
    /\ \E i \in (Len(args[2]) + 1)..Len(args[1]) : args[1][i] < 1 /\ result[i] = 1

\* C8: expandSliceDims(A, B) = expandSliceDims(B, A).
C8_ExpandSliceDimsSymmetric ==
    op = "expandSliceDims" => result = expandSliceDims(args[2], args[1])

\* A call with two different vectors of different lengths.
C8_Witness ==
    /\ op = "expandSliceDims"
    /\ Len(args[1]) < Len(args[2])
    /\ \E i \in 1..Len(args[1]) : args[1][i] # args[2][i]

\* C10: expandSliceDims is associative: merging the result of a call with any
\* third vector C equals merging A with expandSliceDims(B, C).
C10_ExpandSliceDimsAssociative ==
    op = "expandSliceDims" =>
        \A C \in Vectors(0, MaxLen) :
            expandSliceDims(result, C) = expandSliceDims(args[1], expandSliceDims(args[2], C))

\* A call on a vector holding a 0 and an empty vector: the result differs from
\* both operands.
C10_Witness ==
    /\ op = "expandSliceDims"
    /\ args[2] = <<>>
    /\ \E i \in 1..Len(args[1]) : args[1][i] = 0
    /\ result # args[1]

\* C9: expandSlices on full shape vectors is expandSliceDims of the two
\* vectors without their two leading coefficients: its result is two shorter
\* than the longer input and does not change with the leading coefficients;
\* the generic overload is expandSliceDims of the two slices().
C9_ExpandSlicesStripsTwoLeading ==
    /\ op = "expandSlices" =>
        /\ outcome = "returned"
        /\ result = expandSliceDims(DropTwo(args[1]), DropTwo(args[2]))
        /\ Len(result) = Max(Len(args[1]), Len(args[2])) - 2
        /\ \A x \in Vals, y \in Vals :
               /\ expandSlices(<<x, y>> \o DropTwo(args[1]), args[2]) = result
               /\ expandSlices(args[1], <<x, y>> \o DropTwo(args[2])) = result
    /\ op = "expandSlicesMat" =>
        /\ outcome = "returned"
        /\ result = expandSliceDims(args[1].slices, args[2].slices)

\* A call on full shapes of different lengths whose leading coefficients are
\* all 0 while no coefficient of the result is.
C9_Witness ==
    /\ op = "expandSlices"
    /\ Len(args[1]) > Len(args[2])
    /\ \A k \in 1..2 : args[1][k] = 0 /\ args[2][k] = 0
    /\ Len(result) > 0
    /\ \A i \in 1..Len(result) : result[i] # 0

\* What the specification asks of a candidate at least as long as the bounds.
WithinBounds(slice, sliceMins, sliceMaxs) ==
    LET D == Len(sliceMins)
    IN  \/ /\ D = 0
           /\ \A i \in 1..Len(slice) : slice[i] = 0
        \/ /\ D > 0
           /\ \A i \in 1..D : sliceMins[i] <= slice[i] /\ slice[i] <= sliceMaxs[i]
           /\ \A i \in (D + 1)..Len(slice) : slice[i] = 0

\* C2: for bounds of equal length D and a candidate of length >= D,
\* isValidSlice returns true exactly when the candidate's first D coefficients
\* lie within the bounds and all its further coefficients are zero; so a
\* zero appended to an accepted candidate leaves it accepted and a nonzero
\* coefficient beyond D rejects it.
C2_IsValidSliceIffWithinBounds ==
    (op = "isValidSlice" /\ Len(args[1]) >= Len(args[2])) =>
        /\ outcome = "returned"
        /\ result = WithinBounds(args[1], args[2], args[3])
        /\ result => isValidSlice(Append(args[1], 0), args[2], args[3])
        /\ \A v \in Vals \ {0} : ~isValidSlice(Append(args[1], v), args[2], args[3])

\* An oversized candidate within nonempty bounds, accepted for its zero tail.
C2_Witness ==
    /\ op = "isValidSlice"
    /\ Len(args[2]) > 0
    /\ Len(args[1]) > Len(args[2])
    /\ result = TRUE

\* C3: for a candidate shorter than the bounds, isValidSlice completes
\* normally with result false, having asked for no sub-range outside the
\* candidate.
C3_ShortCandidateReturnsFalse ==
    (op = "isValidSlice" /\ Len(args[1]) < Len(args[2])) =>
        /\ outcome = "returned"
        /\ result = FALSE
        /\ ~outOfRange

(***************************************************************************)
(* Numbers as the claims speak of them: unbounded, a sign and a host-size  *)
(* magnitude.                                                              *)
(***************************************************************************)
Num(isNeg, magnitude) == [neg |-> isNeg, mag |-> magnitude]

\* The number an int stands for.
IntNum(i) ==
    IF i >= 0 THEN Num(FALSE, Size(0, i))
    ELSE IF i = INT_MIN THEN Num(TRUE, Size(1, 0))
    ELSE Num(TRUE, Size(0, 0 - i))

\* The number a host size stands for.
SizeNum(s) == Num(FALSE, s)

DigitValue(ch) == CHOOSE d \in 0..9 : Digit(d) = ch

RECURSIVE DigitsMagnitude(_)
DigitsMagnitude(ds) ==
    IF Len(ds) = 0 THEN Size(0, 0)
    ELSE SizeAdd(SizeTimes(10, DigitsMagnitude(SubSeq(ds, 1, Len(ds) - 1))),
                 Size(0, DigitValue(ds[Len(ds)])))

\* The number a decimal numeral, one token per character, stands for.
NumeralNum(ds) ==
    IF Len(ds) > 0 /\ ds[1] = "-"
    THEN Num(TRUE, DigitsMagnitude(Tail(ds)))
    ELSE Num(FALSE, DigitsMagnitude(ds))

IsNumeral(ds) ==
    /\ Len(ds) > 0
    /\ \A i \in 1..Len(ds) :
           \/ \E d \in 0..9 : ds[i] = Digit(d)
           \/ i = 1 /\ ds[i] = "-" /\ Len(ds) > 1

\* msg reads "Mismatch between given (<given>) and expected (<expected>)
\* number of <what>."
MessageCarries(msg, given, expected, what) ==
    \E j \in 3..(Len(msg) - 4) :
        /\ msg[1] = "Mismatch between given ("
        /\ msg[j] = ") and expected ("
        /\ IsNumeral(SubSeq(msg, 2, j - 1))
        /\ NumeralNum(SubSeq(msg, 2, j - 1)) = given
        /\ IsNumeral(SubSeq(msg, j + 1, Len(msg) - 3))
        /\ NumeralNum(SubSeq(msg, j + 1, Len(msg) - 3)) = expected
        /\ SubSeq(msg, Len(msg) - 2, Len(msg)) = <<") number of ", what, ".">>

\* What C4 asks of a row or column check with template argument e on the
\* count n: n back unchanged when e is Dynamic or e = n, and otherwise the
\* invalid-argument error naming n and e.
CheckedAsClaimed(e, n, what) ==
    IF e = Dynamic \/ IntNum(e) = n
    THEN outcome = "returned" /\ IntNum(result) = n
    ELSE outcome = "invalid_argument" /\ MessageCarries(message, n, IntNum(e), what)

\* C4 for the overloads on an int count.
CheckCountsAsClaimed ==
    /\ op = "checkRows" => CheckedAsClaimed(args[1], IntNum(args[2]), "rows")
    /\ op = "checkCols" => CheckedAsClaimed(args[1], IntNum(args[2]), "columns")

\* A mismatch error of the int overload on a negative count.
CheckCountsWitness ==
    /\ op = "checkRows"
    /\ args[2] < 0 - 1
    /\ outcome = "invalid_argument"

\* C4: checkRows<e>(n) and checkCols<e>(n) return n unchanged when e is
\* Dynamic or e = n and otherwise raise invalid-argument with a message that
\* carries n and e; the overloads on an array handle do so for n the array's
\* row count and column count.
C4_CheckRowsColsAsClaimed ==
    /\ CheckCountsAsClaimed
    /\ op = "checkRowsArray" =>
           CheckedAsClaimed(args[1], SizeNum(mxGetM(args[2])), "rows")
    /\ op = "checkColsArray" =>
           CheckedAsClaimed(args[1], SizeNum(mxGetN(args[2])), "columns")

\* C5, as claimed: checkArrayType raises invalid-argument with the fixed
\* message when the predicate rejects the array, and otherwise returns a
\* non-null pointer equal to the array's data pointer, typed Scalar.
C5_CheckArrayTypeReturnsNonNull ==
    op = "checkArrayType" =>
        IF ~isValidArray(args[1], args[2])
        THEN outcome = "invalid_argument" /\ message = <<"MX array of invalid type.">>
        ELSE /\ outcome = "returned"
             /\ result.addr # NULL
             /\ result.addr = mxGetData(args[2])
             /\ result.type = args[1]

\* C5, amended: checkArrayType raises invalid-argument with the fixed message
\* when the predicate rejects the array, and otherwise returns the array's
\* data pointer typed Scalar (const for the const overload), which is null
\* exactly when the array's data pointer is null.
C5_CheckArrayTypeReturnsDataPointer ==
    op = "checkArrayType" =>
        IF ~isValidArray(args[1], args[2])
        THEN outcome = "invalid_argument" /\ message = <<"MX array of invalid type.">>
        ELSE /\ outcome = "returned"
             /\ result.addr = mxGetData(args[2])
             /\ result.type = args[1]
             /\ result.const = args[3]
             /\ (result.addr = NULL) = (args[2].data = NULL)

\* A compatible array without data: the pointer returned is null.
C5_Witness ==
    /\ op = "checkArrayType"
    /\ isValidArray(args[1], args[2])
    /\ outcome = "returned"
    /\ result.addr = NULL

\* Neither channel is used by the other side: getDimensions never raises
\* invalid-argument, the checks never end in the fatal outcome.
ChannelsDistinct ==
    /\ op = "getDimensions" => outcome # "invalid_argument"
    /\ op \in {"checkArrayType", "checkRows", "checkRowsArray", "checkCols", "checkColsArray"}
           => outcome \in {"returned", "invalid_argument"}

\* C6, as claimed: getDimensions on a sparse array always ends in the fatal
\* assertion and never returns, and the two failure channels stay apart.
C6_SparseAlwaysFatal ==
    /\ (op = "getDimensions" /\ mxIsSparse(args[1])) => outcome = "fatal"
    /\ ChannelsDistinct

\* C6, amended: where assertions are compiled in, getDimensions on a sparse
\* array ends in the fatal assertion and never returns; where they are
\* compiled out it returns the array's extents; in both builds the two
\* failure channels stay apart.
C6_SparseFatalWhereAsserted ==
    /\ (op = "getDimensions" /\ mxIsSparse(args[1])) =>
           IF ndebug
           THEN outcome = "returned" /\ Len(result) = mxGetNumberOfDimensions(args[1])
           ELSE outcome = "fatal"
    /\ (op = "getDimensions" /\ ~mxIsSparse(args[1])) => outcome = "returned"
    /\ ChannelsDistinct

\* getDimensions on a sparse array with assertions compiled in.
C6_Witness ==
    /\ op = "getDimensions"
    /\ mxIsSparse(args[1])
    /\ ~ndebug
    /\ outcome = "fatal"

\* C7: for a dense array of n axes getDimensions returns n coefficients, the
\* i-th equal to the array's i-th extent, whatever extents the host declares.
C7_GetDimensionsEqualsExtents ==
    (op = "getDimensions" /\ ~mxIsSparse(args[1])) =>
        /\ outcome = "returned"
        /\ Len(result) = mxGetNumberOfDimensions(args[1])
        /\ \A i \in 1..Len(result) :
               IntNum(result[i]) = SizeNum(mxGetDimensions(args[1])[i])

====
